---- MODULE Spec2Model ----
(***************************************************************************)
(* Model of scripts/validate_model.py, the Tier-1 gatekeeper: one process  *)
(* that checks its arguments, loads metadata.yaml, validates the Tier-1    *)
(* contract, smoke-tests the artifacts and exits with code 0, 1 or 2.      *)
(*                                                                         *)
(* A YAML value is a record [t, v]: t is its Python type after             *)
(* yaml.safe_load ("str", "int", "float"), v its text.  The file system is *)
(* the process's environment: what a file holds is fixed the first time    *)
(* the process reads it and stays as it is for later runs.                 *)
(***************************************************************************)
EXTENDS Integers, Sequences, FiniteSets, TLC

VARIABLES argc, pathKind, folderName, metaFile, folder,
          pc, run, metadata, tier1, smoke, exitCode, out, calls, prev

vars == <<argc, pathKind, folderName, metaFile, folder,
          pc, run, metadata, tier1, smoke, exitCode, out, calls, prev>>

\* ------------------------------------------------------------------ bounds
\* Most entries a model folder's listing holds.
MaxFiles == 2
\* How many times the validator is started on the same folder.
MaxRuns == 2

\* --------------------------------------------------------------- constants
TIER_1_FIELDS == <<"model_id", "git_hash", "framework", "min_app_version", "required_hardware">>

VALID_FRAMEWORKS == <<"pytorch", "tensorflow", "onnx">>

VALID_HARDWARE == <<"mps", "cpu", "cuda">>

\* Number of Tier-1 checks validate_tier_1 evaluates: five field checks and
\* the three value checks that follow the loop.
NumChecks == Len(TIER_1_FIELDS) + 3

Range(s) == {s[i] : i \in 1..Len(s)}

\* ------------------------------------------------------------- YAML values
Str(s) == [t |-> "str", v |-> s]

NonStr(ty, s) == [t |-> ty, v |-> s]

\* Python's None: what dict.get returns for an absent key.
None == [t |-> "NoneType", v |-> "None"]

\* x == s for a Python value x and a str literal s: only a str equals a str.
PyEq(x, s) == x.t = "str" /\ x.v = s

\* x in lst, for a list of str literals.
PyIn(x, lst) == \E i \in 1..Len(lst) : PyEq(x, lst[i])

\* metadata.get(key): the value, or None when the key is absent.
Get(m, key) == IF key \in DOMAIN m THEN m[key] ELSE None

\* metadata.get(key, default)
GetOr(m, key, default) == IF key \in DOMAIN m THEN m[key] ELSE default

\* isinstance(x, str)
IsStr(x) == x.t = "str"

\* ------------------------------------------------------ printed messages
\* One line of output: what it reports, the field it is about, and the value
\* the line interpolates.
Msg(kind, field, arg) == [kind |-> kind, field |-> field, arg |-> arg]

\* ------------------------------------------------- parsed metadata.yaml
\* What yaml.safe_load returns: a mapping, or (the file being empty, a
\* sequence or a scalar) None, a list or a scalar.
Parsed(kind, text, items, map) == [kind |-> kind, text |-> text, items |-> items, map |-> map]

EmptyMap == [k \in {} |-> None]

IsMapping(p) == p.kind = "map"

\* `field in metadata` for a metadata that is a str (substring test) or a
\* list (element test).  The scalar texts of ScalarTexts contain a field
\* name only by being one, so the substring test is equality on them.
Contains(p, field) ==
    CASE p.kind = "str" -> p.text = field
      [] p.kind = "list" -> field \in Range(p.items)
      [] OTHER -> FALSE

\* --------------------------------------------------------- validate_tier_1
\* One iteration of the loop over TIER_1_FIELDS.
FieldCheck(m, field) ==
    IF field \notin DOMAIN m THEN <<Msg("missing", field, "")>>
    ELSE IF ~IsStr(m[field]) THEN <<Msg("type", field, "str")>>
    ELSE <<>>

RECURSIVE FieldLoop(_, _)
\* The loop over TIER_1_FIELDS, from its i-th field on.
FieldLoop(m, i) ==
    IF i > Len(TIER_1_FIELDS) THEN <<>>
    ELSE FieldCheck(m, TIER_1_FIELDS[i]) \o FieldLoop(m, i + 1)

\* A str lower-cased, over the folder and model names of the model.
Lower(s) == IF s = "Model_A" THEN "model_a" ELSE s

\* Variant of ModelIdCheck that compares the names case-insensitively.
ModelIdCheck_Normalised(m, name) ==
    IF Get(m, "model_id").t = "str" /\ Lower(Get(m, "model_id").v) = Lower(name) THEN <<>>
    ELSE <<Msg("mismatch", "model_id", Get(m, "model_id").v)>>

\* if metadata.get("model_id") != model_folder_name
ModelIdCheck(m, name) ==
    IF PyEq(Get(m, "model_id"), name) THEN <<>>
    ELSE <<Msg("mismatch", "model_id", Get(m, "model_id").v)>>

\* Variant of FrameworkCheck that is skipped when the field is missing.
FrameworkCheck_SkipMissing(m) ==
    IF "framework" \notin DOMAIN m \/ PyIn(Get(m, "framework"), VALID_FRAMEWORKS) THEN <<>>
    ELSE <<Msg("domain", "framework", "")>>

\* Variant of FrameworkCheck that accepts any str.
FrameworkCheck_AnyStr(m) ==
    IF IsStr(Get(m, "framework")) THEN <<>>
    ELSE <<Msg("domain", "framework", "")>>

\* if metadata.get("framework") not in VALID_FRAMEWORKS
FrameworkCheck(m) ==
    IF PyIn(Get(m, "framework"), VALID_FRAMEWORKS) THEN <<>>
    ELSE <<Msg("domain", "framework", "")>>

\* if metadata.get("required_hardware") not in VALID_HARDWARE
HardwareCheck(m) ==
    IF PyIn(Get(m, "required_hardware"), VALID_HARDWARE) THEN <<>>
    ELSE <<Msg("domain", "required_hardware", "")>>

\* Variant of Tier1Errors that reports a key outside TIER_1_FIELDS.
Tier1Errors_RejectUnknown(m, name) ==
    FieldLoop(m, 1) \o ModelIdCheck(m, name) \o FrameworkCheck(m) \o HardwareCheck(m)
      \o (IF DOMAIN m \subseteq Range(TIER_1_FIELDS) THEN <<>> ELSE <<Msg("unknown", "", "")>>)

\* The error list validate_tier_1 accumulates for a mapping.
Tier1Errors(m, name) ==
    FieldLoop(m, 1) \o ModelIdCheck(m, name) \o FrameworkCheck(m) \o HardwareCheck(m)

\* The checks validate_tier_1 completes on a metadata that is no mapping
\* before Python raises: `field in None` and `field in 42` raise TypeError
\* in the first iteration; a str or a list passes `field in metadata`, then
\* raises TypeError at metadata[field] for the first field it contains, or
\* else AttributeError at metadata.get after the loop.
ChecksBeforeRaise(p) ==
    IF p.kind \in {"null", "int"} THEN 0
    ELSE LET hits == {i \in 1..Len(TIER_1_FIELDS) : Contains(p, TIER_1_FIELDS[i])}
         IN IF hits = {} THEN Len(TIER_1_FIELDS)
            ELSE (CHOOSE i \in hits : \A j \in hits : i <= j) - 1

\* validate_tier_1(metadata, model_folder_name): "pass" is True, "fail" is
\* False with the errors printed, "raise" an exception that leaves it.
validate_tier_1(p, name) ==
    IF IsMapping(p)
    THEN LET errors == Tier1Errors(p.map, name)
         IN [status |-> IF errors = <<>> THEN "pass" ELSE "fail",
             errors |-> errors, checks |-> NumChecks]
    ELSE [status |-> "raise", errors |-> <<>>, checks |-> ChecksBeforeRaise(p)]

\* -------------------------------------------------------- smoke_test_model
\* A directory entry the smoke test can match: its extension and what the
\* framework's reader makes of it ("corrupt": the load raises; "invalid": an
\* ONNX file that loads and then fails onnx.checker.check_model).
File(ext, health) == [ext |-> ext, health |-> health]

\* What the smoke test reads: the folder's listing in directory order, its
\* saved_model subdirectory, and whether the framework module the dispatched
\* branch imports can be imported.
Folder(dir, savedModel, importable) ==
    [read |-> TRUE, dir |-> dir, savedModel |-> savedModel, importable |-> importable]

\* The folder before the process has listed it.
FolderUnread == [read |-> FALSE, dir |-> <<>>, savedModel |-> "absent", importable |-> FALSE]

\* model_path.glob("*." + ext): the positions of the matching entries, in
\* directory order.
Glob(dir, ext) == SelectSeq([i \in 1..Len(dir) |-> i], LAMBDA i : dir[i].ext = ext)

\* Whether probing file f raises: torch.load for pytorch; onnx.load, then
\* onnx.checker.check_model, for onnx.
ProbeRaises(fw, f) ==
    IF fw = "pytorch" THEN f.health # "ok"
    ELSE f.health \in {"corrupt", "invalid"}

ProbeMsg(fw, f) ==
    IF fw = "onnx" /\ f.health = "invalid" THEN "check_error" ELSE "load_error"

SmokeResult(status, probed, msg) == [status |-> status, probed |-> probed, msg |-> msg]

\* Variant of ProbeLoop that probes every file and reports the last probe.
RECURSIVE ProbeLoop_KeepGoing(_, _, _, _)
ProbeLoop_KeepGoing(fw, dir, files, i) ==
    IF i > Len(files) THEN SmokeResult("pass", files, "passed")
    ELSE IF ProbeRaises(fw, dir[files[i]]) /\ i = Len(files)
         THEN SmokeResult("fail", files, ProbeMsg(fw, dir[files[i]]))
         ELSE ProbeLoop_KeepGoing(fw, dir, files, i + 1)

RECURSIVE ProbeLoop(_, _, _, _)
\* `for mf in model_files` inside the try block, from the i-th file on: the
\* first probe that raises leaves the loop for the except clause.
ProbeLoop(fw, dir, files, i) ==
    IF i > Len(files) THEN SmokeResult("pass", files, "passed")
    ELSE IF ProbeRaises(fw, dir[files[i]])
         THEN SmokeResult("fail", SubSeq(files, 1, i), ProbeMsg(fw, dir[files[i]]))
         ELSE ProbeLoop(fw, dir, files, i + 1)

\* The saved_model directory, as an entry of `probed`.
SavedModelEntry == 0

\* smoke_test_model(model_path, framework): its result, the entries it
\* probed in order, and the line it printed.
smoke_test_model(env, framework) ==
    IF PyEq(framework, "pytorch")
    THEN LET model_files == Glob(env.dir, "pt") \o Glob(env.dir, "pth")
         IN IF model_files = <<>> THEN SmokeResult("fail", <<>>, "no_files")
            ELSE IF ~env.importable THEN SmokeResult("fail", <<>>, "import_error")
            ELSE ProbeLoop("pytorch", env.dir, model_files, 1)
    ELSE IF PyEq(framework, "tensorflow")
    THEN IF ~env.importable THEN SmokeResult("fail", <<>>, "import_error")
         ELSE IF env.savedModel = "absent" THEN SmokeResult("fail", <<>>, "no_saved_model")
         ELSE IF env.savedModel = "corrupt"
              THEN SmokeResult("fail", <<SavedModelEntry>>, "load_error")
              ELSE SmokeResult("pass", <<SavedModelEntry>>, "passed")
    ELSE IF PyEq(framework, "onnx")
    THEN IF ~env.importable THEN SmokeResult("fail", <<>>, "import_error")
         ELSE LET onnx_files == Glob(env.dir, "onnx")
              IN IF onnx_files = <<>> THEN SmokeResult("fail", <<>>, "no_files")
                 ELSE ProbeLoop("onnx", env.dir, onnx_files, 1)
    ELSE SmokeResult("pass", <<>>, "not_implemented")

\* ------------------------------------------------------------ load_metadata
\* metadata.yaml before the process has opened it.
MetaUnread == Parsed("unread", "", <<>>, EmptyMap)

\* load_metadata(model_path) on a metadata.yaml that is absent, is not
\* well-formed YAML, or parses to a value.
load_metadata(f) ==
    IF f.kind = "absent"
    THEN [status |-> "fatal", value |-> MetaUnread, msg |-> Msg("fatal", "metadata.yaml", "not found")]
    ELSE IF f.kind = "malformed"
    THEN [status |-> "fatal", value |-> MetaUnread, msg |-> Msg("fatal", "metadata.yaml", "invalid yaml")]
    ELSE [status |-> "ok", value |-> f, msg |-> Msg("", "", "")]

\* -------------------------------------------------------------- environment
\* Folder base names (model_path.name).
FolderNames == {"model_a", "model_b"}

\* A key metadata.yaml leaves out.
Absent == [t |-> "absent", v |-> ""]

\* A key beyond the five required ones.
ExtraKey == "author"

MetaKeys == Range(TIER_1_FIELDS) \cup {ExtraKey}

\* The value metadata.yaml may give each key.
KeyValues ==
    [model_id : {Absent, Str("model_a"), Str("model_b"), Str("Model_A"), NonStr("int", "7")},
     git_hash : {Absent, Str("abc123"), NonStr("int", "123")},
     framework : {Absent, Str("pytorch"), Str("tensorflow"), Str("onnx"), Str("jax"),
                  NonStr("int", "1")},
     min_app_version : {Absent, Str("1.0"), NonStr("float", "1.0")},
     required_hardware : {Absent, Str("mps"), Str("cpu"), Str("cuda"), Str("tpu"),
                          NonStr("int", "0")},
     author : {Absent, NonStr("int", "3")}]

\* The mapping that holds the keys c gives a value.
ToMap(c) == [k \in {k \in MetaKeys : c[k] # Absent} |-> c[k]]

MetaMaps == {ToMap(c) : c \in KeyValues}

\* Scalar documents and sequence documents.
ScalarTexts == {"hello", "framework"}

ListDocs == {<<"a", "b">>, <<"git_hash", "a">>}

\* What metadata.yaml may be: absent, not well-formed, or a YAML document
\* (empty, a scalar, a sequence, a mapping).
MetaFiles ==
    {Parsed(k, "", <<>>, EmptyMap) : k \in {"absent", "malformed", "null", "int"}}
      \cup {Parsed("str", t, <<>>, EmptyMap) : t \in ScalarTexts}
      \cup {Parsed("list", "", l, EmptyMap) : l \in ListDocs}
      \cup {Parsed("map", "", <<>>, m) : m \in MetaMaps}

Files ==
    {File(e, h) : e \in {"pt", "pth"}, h \in {"ok", "corrupt"}}
      \cup {File("onnx", h) : h \in {"ok", "corrupt", "invalid"}}

Listings == UNION {[1..n -> Files] : n \in 0..MaxFiles}

Folders == {Folder(d, s, i) : d \in Listings, s \in {"absent", "ok", "corrupt"}, i \in BOOLEAN}

\* -------------------------------------------------------------------- state
NoSmoke == [status |-> "none", probed |-> <<>>, msg |-> "", framework |-> None]

NoTier1 == [status |-> "none", errors |-> <<>>, checks |-> 0]

NoCalls == [loader |-> 0, validator |-> 0, smoke |-> 0]

Init ==
    /\ argc \in 0..2
    /\ pathKind \in {"missing", "file", "dir"}
    /\ folderName \in FolderNames
    /\ metaFile = MetaUnread
    /\ folder = FolderUnread
    /\ pc = "start"
    /\ run = 1
    /\ metadata = MetaUnread
    /\ tier1 = NoTier1
    /\ smoke = NoSmoke
    /\ exitCode = <<>>
    /\ out = <<>>
    /\ calls = NoCalls
    /\ prev = [exitCode |-> <<>>, out |-> <<>>]

\* sys.exit(code) after printing `lines`; an uncaught exception ends the
\* interpreter the same way, with status 1.
Exit(code, lines) ==
    /\ pc' = "exited"
    /\ exitCode' = Append(exitCode, code)
    /\ out' = out \o lines

\* main, up to the banner: the argument count and the resolved path.
CheckArgs ==
    /\ pc = "start"
    /\ IF argc # 1 THEN Exit(1, <<Msg("usage", "", "")>>)
       ELSE IF pathKind = "missing" THEN Exit(1, <<Msg("fatal", "path", "does not exist")>>)
       ELSE IF pathKind # "dir" THEN Exit(1, <<Msg("fatal", "path", "not a directory")>>)
       ELSE /\ pc' = "path_ok"
            /\ out' = out \o <<Msg("validating", "", folderName)>>
            /\ UNCHANGED exitCode
    /\ UNCHANGED <<argc, pathKind, folderName, metaFile, folder, run, metadata, tier1,
                   smoke, calls, prev>>

\* Variant of LoadMetadata that loads again after a fatal error.
LoadMetadata_Retry ==
    /\ pc = "path_ok"
    /\ \E f \in (IF metaFile = MetaUnread THEN MetaFiles ELSE {metaFile}) :
        /\ metaFile' = f
        /\ LET r == load_metadata(f)
           IN IF r.status = "fatal"
              THEN UNCHANGED <<pc, metadata, exitCode, out>>
              ELSE /\ metadata' = r.value
                   /\ pc' = "metadata_loaded"
                   /\ UNCHANGED <<exitCode, out>>
    /\ calls' = [calls EXCEPT !.loader = IF @ < 2 THEN @ + 1 ELSE @]
    /\ UNCHANGED <<argc, pathKind, folderName, folder, run, tier1, smoke, prev>>

\* metadata = load_metadata(model_path)
LoadMetadata ==
    /\ pc = "path_ok"
    /\ \E f \in (IF metaFile = MetaUnread THEN MetaFiles ELSE {metaFile}) :
        /\ metaFile' = f
        /\ LET r == load_metadata(f)
           IN IF r.status = "fatal"
              THEN Exit(1, <<r.msg>>) /\ UNCHANGED metadata
              ELSE /\ metadata' = r.value
                   /\ pc' = "metadata_loaded"
                   /\ UNCHANGED <<exitCode, out>>
    /\ calls' = [calls EXCEPT !.loader = @ + 1]
    /\ UNCHANGED <<argc, pathKind, folderName, folder, run, tier1, smoke, prev>>

\* Variant of ValidateTier1 that goes on to the smoke test after a failure.
ValidateTier1_NoBlock ==
    /\ pc = "metadata_loaded"
    /\ LET r == validate_tier_1(metadata, folderName)
       IN /\ tier1' = r
          /\ IF r.status = "raise" THEN Exit(1, <<Msg("traceback", "", "")>>)
             ELSE /\ pc' = "contract_checked"
                  /\ out' = out \o r.errors
                  /\ UNCHANGED exitCode
    /\ calls' = [calls EXCEPT !.validator = @ + 1]
    /\ UNCHANGED <<argc, pathKind, folderName, metaFile, folder, run, metadata, smoke, prev>>

\* if not validate_tier_1(metadata, model_folder_name): ... sys.exit(1)
ValidateTier1 ==
    /\ pc = "metadata_loaded"
    /\ LET r == validate_tier_1(metadata, folderName)
       IN /\ tier1' = r
          /\ CASE r.status = "pass" ->
                    /\ pc' = "contract_checked"
                    /\ out' = Append(out, Msg("tier1", "", "passed"))
                    /\ UNCHANGED exitCode
               [] r.status = "fail" ->
                    Exit(1, <<Msg("tier1", "", "failed")>> \o r.errors
                              \o <<Msg("blocked", "", "tier1")>>)
               [] OTHER -> Exit(1, <<Msg("traceback", "", "")>>)
    /\ calls' = [calls EXCEPT !.validator = @ + 1]
    /\ UNCHANGED <<argc, pathKind, folderName, metaFile, folder, run, metadata, smoke, prev>>

\* The smoke test's result together with the framework value it was given.
SmokeRecord(r, framework) ==
    [status |-> r.status, probed |-> r.probed, msg |-> r.msg, framework |-> framework]

\* Variant of SmokeTest that exits with 1 when the smoke test fails.
SmokeTest_ExitOne ==
    /\ pc = "contract_checked"
    /\ \E e \in (IF folder.read THEN {folder} ELSE Folders) :
        /\ folder' = e
        /\ LET framework == GetOr(metadata.map, "framework", Str(""))
               r == smoke_test_model(e, framework)
           IN /\ smoke' = SmokeRecord(r, framework)
              /\ IF r.status = "pass"
                 THEN /\ pc' = "smoke_checked"
                      /\ out' = Append(out, Msg("smoke", "", r.msg))
                      /\ UNCHANGED exitCode
                 ELSE Exit(1, <<Msg("smoke", "", r.msg), Msg("blocked", "", "smoke")>>)
    /\ calls' = [calls EXCEPT !.smoke = @ + 1]
    /\ UNCHANGED <<argc, pathKind, folderName, metaFile, run, metadata, tier1, prev>>

\* Variant of SmokeTest that removes the artifacts it probed.
SmokeTest_Unlink ==
    /\ pc = "contract_checked"
    /\ \E e \in (IF folder.read THEN {folder} ELSE Folders) :
        /\ LET framework == GetOr(metadata.map, "framework", Str(""))
               r == smoke_test_model(e, framework)
           IN /\ smoke' = SmokeRecord(r, framework)
              /\ folder' = IF r.probed = <<>> THEN e ELSE [e EXCEPT !.dir = <<>>, !.savedModel = "absent"]
              /\ IF r.status = "pass"
                 THEN /\ pc' = "smoke_checked"
                      /\ out' = Append(out, Msg("smoke", "", r.msg))
                      /\ UNCHANGED exitCode
                 ELSE Exit(2, <<Msg("smoke", "", r.msg), Msg("blocked", "", "smoke")>>)
    /\ calls' = [calls EXCEPT !.smoke = @ + 1]
    /\ UNCHANGED <<argc, pathKind, folderName, metaFile, run, metadata, tier1, prev>>

\* if not smoke_test_model(model_path, metadata.get("framework", "")): ...
\* sys.exit(2)
SmokeTest ==
    /\ pc = "contract_checked"
    /\ \E e \in (IF folder.read THEN {folder} ELSE Folders) :
        /\ folder' = e
        /\ LET framework == GetOr(metadata.map, "framework", Str(""))
               r == smoke_test_model(e, framework)
           IN /\ smoke' = SmokeRecord(r, framework)
              /\ IF r.status = "pass"
                 THEN /\ pc' = "smoke_checked"
                      /\ out' = Append(out, Msg("smoke", "", r.msg))
                      /\ UNCHANGED exitCode
                 ELSE Exit(2, <<Msg("smoke", "", r.msg), Msg("blocked", "", "smoke")>>)
    /\ calls' = [calls EXCEPT !.smoke = @ + 1]
    /\ UNCHANGED <<argc, pathKind, folderName, metaFile, run, metadata, tier1, prev>>

\* print("ALL VALIDATIONS PASSED ..."); sys.exit(0)
Finish ==
    /\ pc = "smoke_checked"
    /\ Exit(0, <<Msg("passed", "", "")>>)
    /\ UNCHANGED <<argc, pathKind, folderName, metaFile, folder, run, metadata, tier1,
                   smoke, calls, prev>>

\* The script is started again with the same argument on the same folder:
\* a new process, with nothing of the last one but what the folder holds.
Rerun ==
    /\ pc = "exited"
    /\ run < MaxRuns
    /\ run' = run + 1
    /\ prev' = [exitCode |-> exitCode, out |-> out]
    /\ pc' = "start"
    /\ metadata' = MetaUnread
    /\ tier1' = NoTier1
    /\ smoke' = NoSmoke
    /\ exitCode' = <<>>
    /\ out' = <<>>
    /\ calls' = NoCalls
    /\ UNCHANGED <<argc, pathKind, folderName, metaFile, folder>>

Next == CheckArgs \/ LoadMetadata \/ ValidateTier1 \/ SmokeTest \/ Finish \/ Rerun

Spec == Init /\ [][Next]_vars

\* The process is single-threaded and every call it makes returns (a probe
\* that hangs is outside the model), so a step that can be taken is taken.
FairSpec == Spec /\ WF_vars(Next)

\* main from the loaded mapping on, as a function of what it reads: the exit
\* code for metadata mapping m in folder `name` holding env.
MainExit(m, name, env) ==
    IF validate_tier_1(Parsed("map", "", <<>>, m), name).status # "pass" THEN 1
    ELSE IF smoke_test_model(env, GetOr(m, "framework", Str(""))).status # "pass" THEN 2
    ELSE 0

\* ------------------------------------------------------------------- claims
Exited == pc = "exited"

\* The loader returned a value to main in this run.
LoaderSucceeded == metadata # MetaUnread

\* The code the run ended with (when Exited).
Code == exitCode[Len(exitCode)]

\* C1: a run's exit code is 0 exactly when the loader succeeded, Tier-1
\* passed and the smoke test passed; 2 exactly when the loader succeeded,
\* Tier-1 passed and the smoke test failed; 1 in every other case (usage,
\* path, declaration, contract); and it is never anything else.
C1_ExitCodes ==
    Exited =>
        /\ Len(exitCode) = 1
        /\ Code \in {0, 1, 2}
        /\ Code = 0 <=> (LoaderSucceeded /\ tier1.status = "pass" /\ smoke.status = "pass")
        /\ Code = 2 <=> (LoaderSucceeded /\ tier1.status = "pass" /\ smoke.status = "fail")
        /\ (\/ argc # 1
            \/ pathKind # "dir"
            \/ metaFile.kind \in {"absent", "malformed"}
            \/ tier1.status \in {"fail", "raise"}) => Code = 1

C1_Witness == Exited /\ exitCode = <<2>> /\ smoke.status = "fail" /\ tier1.status = "pass"

\* The Tier-1 contract, stated on a mapping m and the folder's name.
ContractHolds(m, name) ==
    /\ \A f \in Range(TIER_1_FIELDS) : f \in DOMAIN m /\ m[f].t = "str"
    /\ m["model_id"].v = name
    /\ m["framework"].v \in {"pytorch", "tensorflow", "onnx"}
    /\ m["required_hardware"].v \in {"mps", "cpu", "cuda"}

\* C2: validate_tier_1 returns pass iff the five required fields are present
\* and strings, model_id equals the folder name exactly, framework and
\* required_hardware are in their recognised sets; equivalently, iff the
\* accumulated error list is empty.
C2_PassIffContract ==
    tier1.status # "none" =>
        /\ tier1.status = "pass" <=> (IsMapping(metadata) /\ ContractHolds(metadata.map, folderName))
        /\ tier1.status \in {"pass", "fail"} => (tier1.status = "pass" <=> tier1.errors = <<>>)

C2_Witness ==
    /\ tier1.status = "pass"
    /\ metadata.map["model_id"] = Str(folderName)

\* The place of an error message in the fixed order of the checks.
CheckRank(msg) ==
    IF msg.kind \in {"missing", "type"}
    THEN CHOOSE i \in 1..Len(TIER_1_FIELDS) : TIER_1_FIELDS[i] = msg.field
    ELSE IF msg.kind = "mismatch" THEN Len(TIER_1_FIELDS) + 1
    ELSE IF msg.field = "framework" THEN Len(TIER_1_FIELDS) + 2
    ELSE Len(TIER_1_FIELDS) + 3

\* C3: validate_tier_1 never short-circuits: on a mapping the error list holds
\* one message for each violated check and none for a satisfied one, in the
\* order field checks (model_id, git_hash, framework, min_app_version,
\* required_hardware), model_id mismatch, framework domain, hardware domain;
\* and a failing list is printed whole.
C3_NoShortCircuit ==
    tier1.status \in {"pass", "fail"} =>
        LET m == metadata.map
            E == tier1.errors
            reported == Range(E)
        IN /\ \A f \in Range(TIER_1_FIELDS) :
                /\ Msg("missing", f, "") \in reported <=> f \notin DOMAIN m
                /\ Msg("type", f, "str") \in reported <=> (f \in DOMAIN m /\ m[f].t # "str")
           /\ (\E x \in reported : x.kind = "mismatch")
                <=> ~("model_id" \in DOMAIN m /\ m["model_id"] = Str(folderName))
           /\ Msg("domain", "framework", "") \in reported
                <=> ~("framework" \in DOMAIN m
                        /\ m["framework"] \in {Str("pytorch"), Str("tensorflow"), Str("onnx")})
           /\ Msg("domain", "required_hardware", "") \in reported
                <=> ~("required_hardware" \in DOMAIN m
                        /\ m["required_hardware"] \in {Str("mps"), Str("cpu"), Str("cuda")})
           /\ \A x \in reported : x.kind \in {"missing", "type", "mismatch", "domain"}
           /\ \A i, j \in 1..Len(E) : i < j => CheckRank(E[i]) < CheckRank(E[j])
           /\ tier1.status = "fail" => SubSeq(out, Len(out) - Len(E), Len(out) - 1) = E

C3_Witness ==
    /\ tier1.status = "fail"
    /\ "framework" \notin DOMAIN metadata.map
    /\ Msg("missing", "framework", "") \in Range(tier1.errors)
    /\ Msg("domain", "framework", "") \in Range(tier1.errors)

\* C4: the loader, the validator and the smoke tester run in that order, each
\* only if the one before succeeded: no smoke test in a run whose
\* metadata.yaml is missing or unparsable or whose Tier-1 validation failed;
\* a folder without metadata.yaml ends with exit code 1 and no smoke test.
C4_LinearOrder ==
    /\ calls.validator > 0 => (calls.loader > 0 /\ LoaderSucceeded)
    /\ (calls.smoke > 0 \/ smoke.status # "none")
         => (calls.validator > 0 /\ LoaderSucceeded /\ tier1.status = "pass")
    /\ metaFile.kind \in {"absent", "malformed"}
         => (calls.validator = 0 /\ calls.smoke = 0 /\ smoke.status = "none")
    /\ tier1.status \in {"fail", "raise"} => (calls.smoke = 0 /\ smoke.status = "none")
    /\ (metaFile.kind = "absent" /\ Exited) => exitCode = <<1>>

C4_Witness == metaFile.kind = "absent" /\ Exited /\ calls.loader = 1

\* C5: a validation outcome is never partial: whatever metadata.yaml holds
\* (an empty file, a list, a scalar included), either the loader ends the run
\* with a fatal message and exit code 1 before validation begins, or every
\* Tier-1 check is evaluated and the errors are reported together.
C5_NeverPartial ==
    calls.loader > 0 =>
        \/ /\ ~LoaderSucceeded
           /\ calls.validator = 0
           /\ Exited /\ exitCode = <<1>>
           /\ out[Len(out)].kind = "fatal"
        \/ /\ LoaderSucceeded
           /\ calls.validator = 0
        \/ /\ LoaderSucceeded
           /\ tier1.status \in {"pass", "fail"}
           /\ tier1.checks = NumChecks

\* Framework values outside the recognised set.
OtherFrameworks == {Str("jax"), Str(""), Str("PyTorch"), NonStr("int", "1"), None}

\* C6: main gives smoke_test_model only a framework that is pytorch,
\* tensorflow or onnx, so it never takes the unrecognised-framework branch;
\* given any other framework value, smoke_test_model returns pass and probes
\* no file.
C6_OnlyValidFramework ==
    /\ smoke.status # "none" =>
         /\ smoke.framework \in {Str("pytorch"), Str("tensorflow"), Str("onnx")}
         /\ smoke.msg # "not_implemented"
    /\ folder.read =>
         \A fw \in OtherFrameworks :
            LET r == smoke_test_model(folder, fw)
            IN r.status = "pass" /\ r.probed = <<>>

C6_Witness ==
    /\ smoke.status # "none"
    /\ Len(folder.dir) = MaxFiles
    /\ folder.savedModel = "ok"
    /\ folder.importable

\* The entries the smoke test matches for a framework, in probing order.
Matching(dir, fw) ==
    IF fw = "pytorch" THEN Glob(dir, "pt") \o Glob(dir, "pth") ELSE Glob(dir, "onnx")

\* The positions in `files` of the entries that do not parse.
Unparsable(dir, files) == {i \in 1..Len(files) : dir[files[i]].health # "ok"}

First(S) == CHOOSE i \in S : \A j \in S : i <= j

\* C7 as stated: for pytorch and onnx the smoke test passes iff at least one
\* matching file exists and every matching file parses; it fails when no file
\* matches, and stops at the first file that does not parse.
C7_PassIffAllParse ==
    (smoke.status # "none" /\ smoke.framework.v \in {"pytorch", "onnx"}) =>
        LET files == Matching(folder.dir, smoke.framework.v)
            bad == Unparsable(folder.dir, files)
        IN /\ smoke.status = "pass" <=> (files # <<>> /\ bad = {})
           /\ files = <<>> => smoke.status = "fail"
           /\ bad # {} => (smoke.status = "fail" /\ smoke.probed = SubSeq(files, 1, First(bad)))

\* C7, amended: for pytorch and onnx the smoke test passes iff the
\* framework's module can be imported, at least one matching file exists and
\* every matching file parses; it fails when no file matches; with the module
\* imported it stops at the first file that does not parse, probing none of
\* the files after it; without the module it probes no file.
C7_PassIffImportedAndAllParse ==
    (smoke.status # "none" /\ smoke.framework.v \in {"pytorch", "onnx"}) =>
        LET files == Matching(folder.dir, smoke.framework.v)
            bad == Unparsable(folder.dir, files)
        IN /\ smoke.status = "pass" <=> (folder.importable /\ files # <<>> /\ bad = {})
           /\ files = <<>> => smoke.status = "fail"
           /\ (folder.importable /\ bad # {})
                => (smoke.status = "fail" /\ smoke.probed = SubSeq(files, 1, First(bad)))
           /\ ~folder.importable => (smoke.status = "fail" /\ smoke.probed = <<>>)
           /\ smoke.status = "pass" => smoke.probed = files

C7_Witness ==
    /\ smoke.status = "fail"
    /\ folder.importable
    /\ Len(Matching(folder.dir, smoke.framework.v)) = 2
    /\ Len(smoke.probed) = 1

\* m without the keys beyond the five required ones.
Core(m) == [k \in DOMAIN m \cap Range(TIER_1_FIELDS) |-> m[k]]

\* C8: fields beyond the five required ones are ignored: a mapping with extra
\* keys gets the result and the error list of the mapping without them, and
\* the run the exit code.
C8_ExtrasIgnored ==
    (IsMapping(metadata) /\ tier1.status # "none") =>
        /\ tier1 = validate_tier_1(Parsed("map", "", <<>>, Core(metadata.map)), folderName)
        /\ (Exited => exitCode = <<MainExit(Core(metadata.map), folderName, folder)>>)

C8_Witness ==
    /\ IsMapping(metadata)
    /\ ExtraKey \in DOMAIN metadata.map
    /\ Exited
    /\ exitCode = <<0>>

\* A step leaves what the run was given as it is: the arguments, the folder
\* and the loaded mapping.
ReadOnlyStep ==
    /\ UNCHANGED <<argc, pathKind, folderName>>
    /\ metaFile # MetaUnread => metaFile' = metaFile
    /\ folder.read => folder' = folder
    /\ (LoaderSucceeded /\ run' = run) => metadata' = metadata

\* C9: a second run on the same unmodified folder ends with the exit code and
\* the messages of the first, and no run modifies the folder or the mapping.
C9_Idempotent ==
    /\ []((run > 1 /\ Exited) => (exitCode = prev.exitCode /\ out = prev.out))
    /\ [][ReadOnlyStep]_vars

C9_Witness == run > 1 /\ Exited /\ exitCode = <<2>> /\ Len(smoke.probed) > 0

\* The position of a run, in the order main goes through them.
PcRank ==
    CASE pc = "start" -> 0
      [] pc = "path_ok" -> 1
      [] pc = "metadata_loaded" -> 2
      [] pc = "contract_checked" -> 3
      [] pc = "smoke_checked" -> 4
      [] OTHER -> 5

\* C10: every run reaches its one exit; the loader, the validator and the
\* smoke tester are each called at most once in a run; and no step of a run
\* leads back (a failure is final, nothing is retried).
C10_TerminatesOnce ==
    /\ [](pc = "start" => <>Exited)
    /\ [](/\ calls.loader <= 1 /\ calls.validator <= 1 /\ calls.smoke <= 1
          /\ Len(exitCode) <= 1
          /\ Exited <=> Len(exitCode) = 1)
    /\ [][run' = run => PcRank' > PcRank]_vars

C10_Witness == Exited /\ calls = [loader |-> 1, validator |-> 1, smoke |-> 1]

====
